---- MODULE Spec2Model ----
(***************************************************************************)
(* Model of two exchange adapters of gocryptotrader:                       *)
(*   - the Liqui adapter's authenticated request path                      *)
(*     (exchanges/liqui/liqui.go): credentials check, nonce sequencing,    *)
(*     body encoding, signing and the transport call;                      *)
(*   - the Poloniex wrapper's market-data path (poloniex wrapper):         *)
(*     GetTickerPrice / UpdateTicker / GetOrderbookEx / UpdateOrderbook    *)
(*     over the process-wide ticker and orderbook caches.                  *)
(* Goroutines calling into one adapter are the processes Procs; every Go   *)
(* call into a mutex-protected collaborator (nonce, ticker, orderbook) or  *)
(* into the transport is one step.                                         *)
(***************************************************************************)
EXTENDS Integers, Sequences, FiniteSets, TLC

(***************************************************************************)
(* Bounds                                                                  *)
(***************************************************************************)
MaxRequests == 3
MaxTicks == 1

\* the call paths running against one adapter: the periodic market-data
\* poller and a request-driven caller
Procs == {"poller", "caller"}

\* wall-clock seconds when the process starts (time.Now().Unix() is positive)
StartTime == 9
MaxTime == StartTime + MaxTicks

(***************************************************************************)
(* Liqui: constants of the adapter                                         *)
(***************************************************************************)
liquiAccountInfo == "getInfo"
liquiTrade == "Trade"
liquiActiveOrders == "ActiveOrders"
liquiOrderInfo == "OrderInfo"
liquiCancelOrder == "CancelOrder"
liquiTradeHistory == "TradeHistory"
liquiWithdrawCoin == "WithdrawCoin"

WarningAuthenticatedRequestWithoutCredentialsSet == "MissingCredentials"

NoError == "nil"

VARIABLES
    Enabled,                  \* l.Enabled
    AuthenticatedAPISupport,  \* l.AuthenticatedAPISupport
    APIKey,                   \* l.APIKey
    APISecret,                \* l.APISecret
    Nonce,                    \* l.Nonce (the int64 held by nonce.Nonce)
    now,                      \* the wall clock, in seconds
    priv,                     \* per goroutine: frame of its private call
    sent,                     \* transport: the nonce of every request
                              \* received, in order of receipt
    lastRequest,              \* transport: the last request received
    Tickers,                  \* package ticker: the process-wide ticker cache
    Orderbooks,               \* package orderbook: the process-wide cache
    pub                       \* per goroutine: frame of its market-data call

liquiVars == <<Enabled, AuthenticatedAPISupport, APIKey, APISecret, Nonce,
               now, priv, sent, lastRequest>>

cacheVars == <<Tickers, Orderbooks, pub>>

vars == <<liquiVars, cacheVars>>

(***************************************************************************)
(* url.Values and its encoding                                             *)
(***************************************************************************)
\* strconv.FormatInt(n, 10) for n >= 0: the decimal digits, most
\* significant first
RECURSIVE FormatInt(_)
FormatInt(n) ==
    LET d == <<"0", "1", "2", "3", "4", "5", "6", "7", "8", "9">>
    IN  IF n < 10 THEN d[n + 1]
        ELSE FormatInt(n \div 10) \o d[(n % 10) + 1]

\* package nonce: the counter n of a nonce.Nonce, each method one
\* mutex-protected operation
nonce_Get(n) == n
nonce_Set(n, val) == val
nonce_Inc(n) == n + 1
nonce_String(n) == FormatInt(n)

\* url.Values.Set: replaces every value stored under the key
ValuesSet(values, key, val) ==
    [k \in DOMAIN values \cup {key} |-> IF k = key THEN val ELSE values[k]]

\* the keys of the model in the order sort.Strings gives them
SortedKeys == <<"address", "amount", "coinName", "method", "nonce",
                "order_id", "pair", "rate", "type">>

\* url.Values.Encode: "key=value" pairs sorted by key
Encode(values) ==
    LET present == SelectSeq(SortedKeys, LAMBDA k : k \in DOMAIN values)
    IN  [i \in 1..Len(present) |-> <<present[i], values[present[i]]>>]

\* common.GetHMAC(common.HashSHA512, msg, key), as a free constructor
GetHMAC(msg, key) == [alg |-> "SHA512", key |-> key, msg |-> msg]

\* common.HexEncodeToString
HexEncodeToString(h) == <<"hex", h>>

(***************************************************************************)
(* Liqui: the private call wrappers build their parameters                 *)
(***************************************************************************)
EmptyValues == [k \in {} |-> ""]

\* parameter sets a caller may hand to GetTradeHistory
CallerValues == {EmptyValues, [k \in {"nonce", "method"} |-> "7"]}

LiquiMethods == {liquiAccountInfo, liquiTrade, liquiActiveOrders,
                 liquiOrderInfo, liquiCancelOrder, liquiTradeHistory,
                 liquiWithdrawCoin}

\* the url.Values a wrapper passes to SendAuthenticatedHTTPRequest
WrapperValues(method, vals) ==
    CASE method = liquiAccountInfo -> EmptyValues
      [] method = liquiTrade ->
            [k \in {"pair", "type", "amount", "rate"} |->
                CASE k = "pair" -> "eth_btc"
                  [] k = "type" -> "buy"
                  [] k = "amount" -> "1"
                  [] k = "rate" -> "2"]
      [] method = liquiActiveOrders -> [k \in {"pair"} |-> "eth_btc"]
      [] method = liquiOrderInfo -> [k \in {"order_id"} |-> "5"]
      [] method = liquiCancelOrder -> [k \in {"order_id"} |-> "5"]
      [] method = liquiTradeHistory -> ValuesSet(vals, "pair", "eth_btc")
      [] method = liquiWithdrawCoin ->
            [k \in {"coinName", "amount", "address"} |->
                CASE k = "coinName" -> "btc"
                  [] k = "amount" -> "1"
                  [] k = "address" -> "addr"]

(***************************************************************************)
(* Liqui: state after SetDefaults                                          *)
(***************************************************************************)
NoRequest == [verb |-> "", headers |-> <<>>, body |-> <<>>]

\* the response envelope of the exchange: a success flag with either a
\* result payload or an error string
SuccessEnvelope == [success |-> 1, error |-> "", data |-> "payload"]
FailureEnvelope == [success |-> 0, error |-> "invalid", data |-> ""]
Envelopes == {SuccessEnvelope, FailureEnvelope}

\* the result variable of a call before anything is decoded into it
NoEnvelope == [success |-> -1, error |-> "", data |-> ""]

\* the exchange.FeeBuilder of a frame that is not a call of GetFee
NoFeeBuilder == [FeeType |-> "", IsMaker |-> FALSE, PurchasePrice |-> 0,
                 Amount |-> 0, FirstCurrency |-> ""]

IdleFrame == [pc |-> "idle", method |-> "", values |-> EmptyValues,
              t |-> 0, after |-> 0, err |-> NoError, result |-> NoEnvelope,
              feeBuilder |-> NoFeeBuilder, fee |-> 0]

LiquiInit ==
    /\ Enabled = FALSE
    /\ AuthenticatedAPISupport = FALSE
    /\ APIKey = ""
    /\ APISecret = ""
    /\ Nonce = 0
    /\ now = StartTime
    /\ priv = [p \in Procs |-> IdleFrame]
    /\ sent = <<>>
    /\ lastRequest = NoRequest

(***************************************************************************)
(* Liqui: Setup                                                            *)
(***************************************************************************)
APIKeys == {"key"}
APISecrets == {"", "secret"}

\* config.ExchangeConfig values handed to Setup
ExchangeConfigs == [Enabled : BOOLEAN, AuthenticatedAPISupport : BOOLEAN,
                    APIKey : APIKeys, APISecret : APISecrets]

\* Setup runs once, before the adapter serves calls
Setup(exch) ==
    /\ \A p \in Procs : priv[p].pc = "idle"
    /\ ~Enabled
    /\ IF ~exch.Enabled
         THEN /\ Enabled' = FALSE
              /\ UNCHANGED <<AuthenticatedAPISupport, APIKey, APISecret>>
         ELSE /\ Enabled' = TRUE
              /\ AuthenticatedAPISupport' = exch.AuthenticatedAPISupport
              /\ APIKey' = exch.APIKey
              /\ APISecret' = exch.APISecret
    /\ UNCHANGED <<cacheVars, Nonce, now, priv, sent, lastRequest>>

(***************************************************************************)
(* The wall clock                                                          *)
(***************************************************************************)
Tick ==
    /\ now < MaxTime
    /\ now' = now + 1
    /\ UNCHANGED <<cacheVars, Enabled, AuthenticatedAPISupport, APIKey, APISecret,
                   Nonce, priv, sent, lastRequest>>

(***************************************************************************)
(* Liqui: SendAuthenticatedHTTPRequest, one step per call into the nonce   *)
(* or the transport                                                        *)
(***************************************************************************)
InFlight(p) == priv[p].pc \notin {"idle", "done"}

NumInFlight == Cardinality({p \in Procs : InFlight(p)})

\* a wrapper (GetAccountInfo, Trade, GetActiveOrders, GetOrderInfo,
\* CancelOrder, GetTradeHistory, WithdrawCoins) builds its parameters and
\* enters SendAuthenticatedHTTPRequest
PrivateCall(p, method, vals) ==
    /\ ~InFlight(p)
    /\ Len(sent) + NumInFlight < MaxRequests
    /\ priv' = [priv EXCEPT ![p] =
                  [pc |-> "check", method |-> method,
                   values |-> WrapperValues(method, vals),
                   t |-> 0, after |-> Len(sent), err |-> NoError,
                   result |-> NoEnvelope, feeBuilder |-> NoFeeBuilder,
                   fee |-> 0]]
    /\ UNCHANGED <<cacheVars, Enabled, AuthenticatedAPISupport, APIKey, APISecret,
                   Nonce, now, sent, lastRequest>>

\* the frame of a call that has returned err to the caller of the wrapper
Returned(err) ==
    [pc |-> "done", method |-> "", values |-> EmptyValues,
     t |-> 0, after |-> 0, err |-> err, result |-> NoEnvelope,
     feeBuilder |-> NoFeeBuilder, fee |-> 0]

\* liqui.go:276 the credentials check
CredentialsSet == AuthenticatedAPISupport

\* the frame of a call rejected by the credentials check: the caller still
\* holds the parameter set it passed
Rejected(frame) ==
    [Returned(WarningAuthenticatedRequestWithoutCredentialsSet)
        EXCEPT !.values = frame.values]

\* a check that is made only after the nonce was advanced and written into
\* the parameters
CheckCredentials_AfterNonce(p) ==
    /\ priv[p].pc = "check"
    /\ IF ~CredentialsSet
         THEN /\ Nonce' = nonce_Inc(Nonce)
              /\ priv' = [priv EXCEPT ![p] =
                      Rejected([priv[p] EXCEPT !.values =
                          ValuesSet(@, "nonce",
                                    nonce_String(nonce_Inc(Nonce)))])]
         ELSE /\ priv' = [priv EXCEPT ![p].pc = "get"]
              /\ UNCHANGED Nonce
    /\ UNCHANGED <<cacheVars, Enabled, AuthenticatedAPISupport, APIKey, APISecret,
                   now, sent, lastRequest>>

\* liqui.go:276-278 the credentials check, made before anything else
CheckCredentials(p) ==
    /\ priv[p].pc = "check"
    /\ IF ~CredentialsSet
         THEN priv' = [priv EXCEPT ![p] = Rejected(priv[p])]
         ELSE priv' = [priv EXCEPT ![p].pc = "get"]
    /\ UNCHANGED <<cacheVars, Enabled, AuthenticatedAPISupport, APIKey, APISecret,
                   Nonce, now, sent, lastRequest>>

\* a sequencer that seeds from the clock on every call
NonceBranch_AlwaysSeed(n) == "clock"

\* liqui.go:280-284 which branch the value read by l.Nonce.Get() selects
NonceBranch(n) == IF n = 0 THEN "clock" ELSE "inc"

NonceGet(p) ==
    /\ priv[p].pc = "get"
    /\ priv' = [priv EXCEPT ![p].pc = NonceBranch(nonce_Get(Nonce))]
    /\ UNCHANGED <<cacheVars, Enabled, AuthenticatedAPISupport, APIKey, APISecret,
                   Nonce, now, sent, lastRequest>>

\* time.Now().Unix(), the argument of l.Nonce.Set
ReadClock(p) ==
    /\ priv[p].pc = "clock"
    /\ priv' = [priv EXCEPT ![p].pc = "set", ![p].t = now]
    /\ UNCHANGED <<cacheVars, Enabled, AuthenticatedAPISupport, APIKey, APISecret,
                   Nonce, now, sent, lastRequest>>

\* l.Nonce.Set(val)
NonceSet(p) ==
    /\ priv[p].pc = "set"
    /\ Nonce' = nonce_Set(Nonce, priv[p].t)
    /\ priv' = [priv EXCEPT ![p].pc = "string"]
    /\ UNCHANGED <<cacheVars, Enabled, AuthenticatedAPISupport, APIKey, APISecret,
                   now, sent, lastRequest>>

\* l.Nonce.Inc()
NonceInc(p) ==
    /\ priv[p].pc = "inc"
    /\ Nonce' = nonce_Inc(Nonce)
    /\ priv' = [priv EXCEPT ![p].pc = "string"]
    /\ UNCHANGED <<cacheVars, Enabled, AuthenticatedAPISupport, APIKey, APISecret,
                   now, sent, lastRequest>>

\* values.Set("nonce", l.Nonce.String())
SetNonceValue(p) ==
    /\ priv[p].pc = "string"
    /\ priv' = [priv EXCEPT ![p].pc = "send",
                  ![p].values = ValuesSet(@, "nonce", nonce_String(Nonce))]
    /\ UNCHANGED <<cacheVars, Enabled, AuthenticatedAPISupport, APIKey, APISecret,
                   Nonce, now, sent, lastRequest>>

\* a request signed before the method name is added to the parameters
BuildRequest_SignedBeforeMethod(method, values, key, secret) ==
    LET encoded == Encode(ValuesSet(values, "method", method))
    IN  [verb |-> "POST",
         headers |-> [Key |-> key,
                      Sign |-> HexEncodeToString(GetHMAC(Encode(values),
                                                         secret)),
                      ContentType |-> "application/x-www-form-urlencoded"],
         body |-> encoded]

\* liqui.go:286-306 the request handed to l.SendPayload
BuildRequest(method, values, key, secret) ==
    LET encoded == Encode(ValuesSet(values, "method", method))
    IN  [verb |-> "POST",
         headers |-> [Key |-> key,
                      Sign |-> HexEncodeToString(GetHMAC(encoded, secret)),
                      ContentType |-> "application/x-www-form-urlencoded"],
         body |-> encoded]

\* outcomes of the transport call
TransportOutcomes == {NoError, "TransportError"}

\* the nonce a request body carries
BodyNonce(req) ==
    LET i == CHOOSE j \in 1..Len(req.body) : req.body[j][1] = "nonce"
    IN  req.body[i][2]

\* request.SendPayload decodes the body it received into result and
\* reports only a failure of the transport
Decoded(outcome, envelope) ==
    IF outcome = NoError THEN envelope ELSE NoEnvelope

\* liqui.go:237-242 what CancelOrder hands back for the error of
\* SendAuthenticatedHTTPRequest
CancelOrderReturn(err) == IF err # NoError THEN FALSE ELSE TRUE

SendPayload(p, outcome, envelope) ==
    /\ priv[p].pc = "send"
    /\ LET req == BuildRequest(priv[p].method, priv[p].values,
                                APIKey, APISecret)
       IN  /\ lastRequest' = req
           /\ sent' = Append(sent, [nonce |-> BodyNonce(req),
                                    after |-> priv[p].after])
    /\ priv' = [priv EXCEPT ![p] =
                  [Returned(outcome) EXCEPT
                      !.result = Decoded(outcome, envelope)]]
    /\ UNCHANGED <<cacheVars, Enabled, AuthenticatedAPISupport, APIKey, APISecret,
                   Nonce, now>>

LiquiStep ==
    \/ \E exch \in ExchangeConfigs : Setup(exch)
    \/ Tick
    \/ \E p \in Procs :
         \/ \E method \in LiquiMethods, vals \in CallerValues :
                PrivateCall(p, method, vals)
         \/ CheckCredentials(p)
         \/ NonceGet(p)
         \/ ReadClock(p)
         \/ NonceSet(p)
         \/ NonceInc(p)
         \/ SetNonceValue(p)
         \/ \E outcome \in TransportOutcomes, envelope \in Envelopes :
                SendPayload(p, outcome, envelope)

(***************************************************************************)
(* Liqui: GetFee.  Fees, prices and amounts are whole multiples of 0.0001  *)
(***************************************************************************)
CryptocurrencyTradeFee == "cryptocurrencyTradeFee"
CryptocurrencyWithdrawalFee == "cryptocurrencyWithdrawalFee"
InternationalBankDepositFee == "internationalBankDepositFee"

FeeTypes == {CryptocurrencyTradeFee, CryptocurrencyWithdrawalFee,
             InternationalBankDepositFee}

\* the per-currency withdrawal-fee table, one entry of it below zero
WithdrawalFees == [c \in {"BTC", "ETH"} |-> IF c = "BTC" THEN 10 ELSE -5]

FeeCurrencies == {"BTC", "ETH"}

\* purchase prices and amounts a caller may pass
FeeAmounts == {-2, 0, 3}

FeeBuilders == [FeeType : FeeTypes, IsMaker : BOOLEAN,
                PurchasePrice : FeeAmounts, Amount : FeeAmounts,
                FirstCurrency : FeeCurrencies]

\* liqui.go:326-328
getCryptocurrencyWithdrawalFee(currency) ==
    IF currency \in DOMAIN WithdrawalFees THEN WithdrawalFees[currency] ELSE 0

\* liqui.go:330-337 with the rates 0.001 and 0.0025 in units of 0.0001
calculateTradingFee(purchasePrice, amount, isMaker) ==
    LET fee == IF isMaker THEN 10 ELSE 25
    IN  fee * purchasePrice * amount

\* a GetFee that returns the fee as computed
GetFee_Unfloored(feeBuilder) ==
    CASE feeBuilder.FeeType = CryptocurrencyTradeFee ->
            calculateTradingFee(feeBuilder.PurchasePrice, feeBuilder.Amount,
                                feeBuilder.IsMaker)
      [] feeBuilder.FeeType = CryptocurrencyWithdrawalFee ->
            getCryptocurrencyWithdrawalFee(feeBuilder.FirstCurrency)
      [] OTHER -> 0

\* liqui.go:310-324 the fee GetFee returns
GetFee(feeBuilder) ==
    LET fee == CASE feeBuilder.FeeType = CryptocurrencyTradeFee ->
                      calculateTradingFee(feeBuilder.PurchasePrice,
                                          feeBuilder.Amount,
                                          feeBuilder.IsMaker)
                 [] feeBuilder.FeeType = CryptocurrencyWithdrawalFee ->
                      getCryptocurrencyWithdrawalFee(feeBuilder.FirstCurrency)
                 [] OTHER -> 0
    IN  IF fee < 0 THEN 0 ELSE fee

\* a goroutine calls GetFee and has (fee, nil) returned
GetFeeCall(p, feeBuilder) ==
    /\ ~InFlight(p)
    /\ priv' = [priv EXCEPT ![p] =
                  [Returned(NoError) EXCEPT !.method = "GetFee",
                                            !.feeBuilder = feeBuilder,
                                            !.fee = GetFee(feeBuilder)]]
    /\ UNCHANGED <<cacheVars, Enabled, AuthenticatedAPISupport, APIKey, APISecret,
                   Nonce, now, sent, lastRequest>>

FeeStep == \E p \in Procs, feeBuilder \in FeeBuilders : GetFeeCall(p, feeBuilder)

\* the same calls when the callers serialise themselves: a wrapper is
\* entered only while no other private call is running
PrivateCallSeq(p, method, vals) ==
    /\ NumInFlight = 0
    /\ PrivateCall(p, method, vals)

LiquiStepSeq ==
    \/ \E exch \in ExchangeConfigs : Setup(exch)
    \/ Tick
    \/ \E p \in Procs :
         \/ \E method \in LiquiMethods, vals \in CallerValues :
                PrivateCallSeq(p, method, vals)
         \/ CheckCredentials(p)
         \/ NonceGet(p)
         \/ ReadClock(p)
         \/ NonceSet(p)
         \/ NonceInc(p)
         \/ SetNonceValue(p)
         \/ \E outcome \in TransportOutcomes, envelope \in Envelopes :
                SendPayload(p, outcome, envelope)

(***************************************************************************)
(* Poloniex: configuration and the data the exchange answers with          *)
(***************************************************************************)
PoloniexName == "Poloniex"

BTC_USD == [FirstCurrency |-> "BTC", SecondCurrency |-> "USD"]
ETH_USD == [FirstCurrency |-> "ETH", SecondCurrency |-> "USD"]
LTC_USD == [FirstCurrency |-> "LTC", SecondCurrency |-> "USD"]

\* pairs a caller may ask for
Pairs == {BTC_USD, ETH_USD, LTC_USD}

\* p.GetEnabledCurrencies(): the configured enabled pairs, in config order
EnabledPairs == <<BTC_USD, ETH_USD>>

AssetTypes == {"SPOT"}

\* exchange.FormatExchangeCurrency(name, x).String(): the pair in the
\* exchange's request format (delimiter "_")
FormatExchangeCurrency(x) == x.FirstCurrency \o "_" \o x.SecondCurrency

\* a Go map read: the zero value when the key is absent
MapGet(m, k, zero) == IF k \in DOMAIN m THEN m[k] ELSE zero

ZeroTicker == [Last |-> 0, LowestAsk |-> 0, HighestBid |-> 0,
               BaseVolume |-> 0, High24Hr |-> 0, Low24Hr |-> 0]

\* a ticker entry of the exchange quoting around price v
Quote(v) == [Last |-> v, LowestAsk |-> v + 1, HighestBid |-> v - 1,
             BaseVolume |-> 5, High24Hr |-> v + 2, Low24Hr |-> v - 2]

\* answers of the returnTicker endpoint (map[string]Ticker)
TickerResponses ==
    { [k \in {"BTC_USD", "ETH_USD", "LTC_USD"} |-> Quote(10)],
      [k \in {"BTC_USD"} |-> Quote(20)] }

Level(price, amount) == [Price |-> price, Amount |-> amount]

\* orderbooks of the exchange: one with best-first levels, one with the
\* levels in another order
BestFirstBook == [Bids |-> <<Level(9, 1), Level(8, 2)>>,
                  Asks |-> <<Level(11, 1), Level(12, 2)>>]
OtherOrderBook == [Bids |-> <<Level(8, 2), Level(9, 1)>>,
                   Asks |-> <<Level(12, 2), Level(11, 1)>>]

\* answers of the returnOrderBook endpoint for all pairs (OrderbookAll.Data)
OrderbookResponses ==
    { [k \in {"BTC_USD", "ETH_USD", "LTC_USD"} |-> BestFirstBook],
      [k \in {"BTC_USD"} |-> OtherOrderBook] }

(***************************************************************************)
(* Packages ticker and orderbook: the process-wide caches                  *)
(***************************************************************************)
CacheKey(exchangeName, p, assetType) == <<exchangeName, p, assetType>>

NoPair == [FirstCurrency |-> "", SecondCurrency |-> ""]

\* the zero ticker.Price
ZeroPrice == [Pair |-> NoPair, Ask |-> 0, Bid |-> 0, High |-> 0, Last |-> 0,
              Low |-> 0, Volume |-> 0]

\* the zero orderbook.Base
ZeroBase == [Pair |-> NoPair, Bids |-> <<>>, Asks |-> <<>>]

\* ticker.GetTicker: lookup only
ticker_GetTicker(cache, exchangeName, p, tickerType) ==
    LET key == CacheKey(exchangeName, p, tickerType)
    IN  IF key \in DOMAIN cache
          THEN [val |-> cache[key], err |-> NoError]
          ELSE [val |-> ZeroPrice, err |-> "ticker not found"]

\* ticker.ProcessTicker: unconditional overwrite of one entry
ticker_ProcessTicker(cache, exchangeName, p, tickerNew, tickerType) ==
    LET key == CacheKey(exchangeName, p, tickerType)
    IN  [k \in DOMAIN cache \cup {key} |->
            IF k = key THEN tickerNew ELSE cache[k]]

\* orderbook.GetOrderbook: lookup only
orderbook_GetOrderbook(cache, exchangeName, p, orderbookType) ==
    LET key == CacheKey(exchangeName, p, orderbookType)
    IN  IF key \in DOMAIN cache
          THEN [val |-> cache[key], err |-> NoError]
          ELSE [val |-> ZeroBase, err |-> "orderbook not found"]

\* orderbook.ProcessOrderbook: unconditional overwrite of one entry
orderbook_ProcessOrderbook(cache, exchangeName, p, orderbookNew, orderbookType) ==
    LET key == CacheKey(exchangeName, p, orderbookType)
    IN  [k \in DOMAIN cache \cup {key} |->
            IF k = key THEN orderbookNew ELSE cache[k]]

(***************************************************************************)
(* Poloniex: frames of the market-data calls                               *)
(***************************************************************************)
NoResponse == [k \in {} |-> ZeroTicker]

NoReturn == [val |-> ZeroPrice, err |-> NoError]

IdlePub == [pc |-> "idle", op |-> "", pair |-> NoPair, assetType |-> "",
            miss |-> FALSE, fetched |-> 0, resp |-> NoResponse, i |-> 0,
            orderBook |-> ZeroBase, ret |-> NoReturn]

Busy(p) == pub[p].pc \notin {"idle", "done"}

\* the frame of a call entering UpdateTicker / UpdateOrderbook
Entered(pc, op, currencyPair, assetType, miss) ==
    [IdlePub EXCEPT !.pc = pc, !.op = op, !.pair = currencyPair,
                    !.assetType = assetType, !.miss = miss]

\* the frame of a call that has returned ret to its caller
ReturnedPub(frame, ret) ==
    [IdlePub EXCEPT !.pc = "done", !.op = frame.op, !.pair = frame.pair,
                    !.assetType = frame.assetType, !.miss = frame.miss,
                    !.fetched = frame.fetched, !.ret = ret]

CacheInit ==
    /\ Tickers = [k \in {} |-> ZeroPrice]
    /\ Orderbooks = [k \in {} |-> ZeroBase]
    /\ pub = [p \in Procs |-> IdlePub]

(***************************************************************************)
(* Poloniex: GetTickerPrice and UpdateTicker                               *)
(***************************************************************************)
\* a GetTickerPrice that refreshes from the network whatever the cache holds
GetTickerPrice_AlwaysRefresh(p, currencyPair, assetType) ==
    /\ ~Busy(p)
    /\ pub' = [pub EXCEPT ![p] =
                 Entered("ut_fetch", "GetTickerPrice", currencyPair,
                         assetType, TRUE)]
    /\ UNCHANGED <<liquiVars, Tickers, Orderbooks>>

\* part_000:72-79 look the ticker up; on a miss go on into UpdateTicker
GetTickerPrice(p, currencyPair, assetType) ==
    /\ ~Busy(p)
    /\ LET tickerNew == ticker_GetTicker(Tickers, PoloniexName, currencyPair,
                                         assetType)
           frame == Entered("ut_fetch", "GetTickerPrice", currencyPair,
                            assetType, TRUE)
       IN  IF tickerNew.err # NoError
             THEN pub' = [pub EXCEPT ![p] = frame]
             ELSE pub' = [pub EXCEPT ![p] =
                     ReturnedPub([frame EXCEPT !.miss = FALSE], tickerNew)]
    /\ UNCHANGED <<liquiVars, Tickers, Orderbooks>>

\* part_000:50 a caller enters UpdateTicker directly
UpdateTicker(p, currencyPair, assetType) ==
    /\ ~Busy(p)
    /\ pub' = [pub EXCEPT ![p] =
                 Entered("ut_fetch", "UpdateTicker", currencyPair, assetType,
                         FALSE)]
    /\ UNCHANGED <<liquiVars, Tickers, Orderbooks>>

\* a failed refresh that files an empty ticker for the pair asked for
GetTickerFails_FilesZero(p) ==
    /\ pub[p].pc = "ut_fetch"
    /\ pub' = [pub EXCEPT ![p] =
                 ReturnedPub([pub[p] EXCEPT !.fetched = @ + 1],
                             [val |-> ZeroPrice, err |-> "TransportError"])]
    /\ Tickers' = ticker_ProcessTicker(Tickers, PoloniexName, pub[p].pair,
                                       ZeroPrice, pub[p].assetType)
    /\ UNCHANGED <<liquiVars, Orderbooks>>

\* part_000:52-55 tick, err := p.GetTicker(): the transport call fails
GetTickerFails(p) ==
    /\ pub[p].pc = "ut_fetch"
    /\ pub' = [pub EXCEPT ![p] =
                 ReturnedPub([pub[p] EXCEPT !.fetched = @ + 1],
                             [val |-> ZeroPrice, err |-> "TransportError"])]
    /\ UNCHANGED <<liquiVars, Tickers, Orderbooks>>

\* part_000:52 tick, err := p.GetTicker(): the exchange answers with tick
GetTicker(p, tick) ==
    /\ pub[p].pc = "ut_fetch"
    /\ pub' = [pub EXCEPT ![p].pc = "ut_loop", ![p].fetched = @ + 1,
                          ![p].resp = tick, ![p].i = 1]
    /\ UNCHANGED <<liquiVars, Tickers, Orderbooks>>

\* a ticker.Price with the ask and bid sides taken from the wrong fields
TickerPriceOf_AskBidSwapped(tick, x) ==
    LET curr == FormatExchangeCurrency(x)
        t == MapGet(tick, curr, ZeroTicker)
    IN  [Pair |-> x, Ask |-> t.HighestBid, Bid |-> t.LowestAsk,
         High |-> t.High24Hr, Last |-> t.Last, Low |-> t.Low24Hr,
         Volume |-> t.BaseVolume]

\* part_000:58-66 the ticker.Price built for enabled pair x from tick
TickerPriceOf(tick, x) ==
    LET curr == FormatExchangeCurrency(x)
        t == MapGet(tick, curr, ZeroTicker)
    IN  [Pair |-> x, Ask |-> t.LowestAsk, Bid |-> t.HighestBid,
         High |-> t.High24Hr, Last |-> t.Last, Low |-> t.Low24Hr,
         Volume |-> t.BaseVolume]

\* a loop that also files what the answer holds for a pair that is not
\* enabled
UpdateTickerLoop_FilesAnswer(p) ==
    /\ pub[p].pc = "ut_loop"
    /\ pub[p].i <= Len(EnabledPairs)
    /\ LET x == EnabledPairs[pub[p].i]
           filed == ticker_ProcessTicker(Tickers, PoloniexName, x,
                        TickerPriceOf(pub[p].resp, x), pub[p].assetType)
       IN  Tickers' =
             IF FormatExchangeCurrency(LTC_USD) \in DOMAIN pub[p].resp
               THEN ticker_ProcessTicker(filed, PoloniexName, LTC_USD,
                        TickerPriceOf(pub[p].resp, LTC_USD),
                        pub[p].assetType)
               ELSE filed
    /\ pub' = [pub EXCEPT ![p].i = @ + 1]
    /\ UNCHANGED <<liquiVars, Orderbooks>>

\* part_000:57-68 one iteration of the loop over the enabled pairs
UpdateTickerLoop(p) ==
    /\ pub[p].pc = "ut_loop"
    /\ pub[p].i <= Len(EnabledPairs)
    /\ LET x == EnabledPairs[pub[p].i]
       IN  Tickers' = ticker_ProcessTicker(Tickers, PoloniexName, x,
                          TickerPriceOf(pub[p].resp, x), pub[p].assetType)
    /\ pub' = [pub EXCEPT ![p].i = @ + 1]
    /\ UNCHANGED <<liquiVars, Orderbooks>>

\* part_000:69 return ticker.GetTicker(p.Name, currencyPair, assetType)
UpdateTickerReturn(p) ==
    /\ pub[p].pc = "ut_loop"
    /\ pub[p].i > Len(EnabledPairs)
    /\ pub' = [pub EXCEPT ![p] =
                 ReturnedPub(pub[p],
                     ticker_GetTicker(Tickers, PoloniexName, pub[p].pair,
                                      pub[p].assetType))]
    /\ UNCHANGED <<liquiVars, Tickers, Orderbooks>>

(***************************************************************************)
(* Poloniex: GetOrderbookEx and UpdateOrderbook                            *)
(***************************************************************************)
\* part_000:82-88 look the orderbook up; on a miss go on into UpdateOrderbook
GetOrderbookEx(p, currencyPair, assetType) ==
    /\ ~Busy(p)
    /\ LET ob == orderbook_GetOrderbook(Orderbooks, PoloniexName,
                                        currencyPair, assetType)
           frame == Entered("uo_fetch", "GetOrderbookEx", currencyPair,
                            assetType, TRUE)
       IN  IF ob.err # NoError
             THEN pub' = [pub EXCEPT ![p] = frame]
             ELSE pub' = [pub EXCEPT ![p] =
                     ReturnedPub([frame EXCEPT !.miss = FALSE], ob)]
    /\ UNCHANGED <<liquiVars, Tickers, Orderbooks>>

\* part_000:91 a caller enters UpdateOrderbook directly
UpdateOrderbook(p, currencyPair, assetType) ==
    /\ ~Busy(p)
    /\ pub' = [pub EXCEPT ![p] =
                 Entered("uo_fetch", "UpdateOrderbook", currencyPair,
                         assetType, FALSE)]
    /\ UNCHANGED <<liquiVars, Tickers, Orderbooks>>

\* part_000:93-96 orderbookNew, err := p.GetOrderbook("", 1000) fails
GetOrderbookFails(p) ==
    /\ pub[p].pc = "uo_fetch"
    /\ pub' = [pub EXCEPT ![p] =
                 ReturnedPub([pub[p] EXCEPT !.fetched = @ + 1],
                             [val |-> ZeroBase, err |-> "TransportError"])]
    /\ UNCHANGED <<liquiVars, Tickers, Orderbooks>>

\* part_000:93 orderbookNew, err := p.GetOrderbook("", 1000) answers
GetOrderbook(p, orderbookNew) ==
    /\ pub[p].pc = "uo_fetch"
    /\ pub' = [pub EXCEPT ![p].pc = "uo_loop", ![p].fetched = @ + 1,
                          ![p].resp = orderbookNew, ![p].i = 1]
    /\ UNCHANGED <<liquiVars, Tickers, Orderbooks>>

\* part_000:106-118 the orderbook.Item slice built from one side of data
ItemsOf(levels) ==
    [y \in 1..Len(levels) |->
        [Amount |-> levels[y].Amount, Price |-> levels[y].Price]]

\* part_000:104-118 the local orderBook after the body for pair x
OrderbookOf(orderBook, data, x) ==
    [orderBook EXCEPT !.Pair = x, !.Bids = ItemsOf(data.Bids),
                      !.Asks = ItemsOf(data.Asks)]

\* part_000:98-120 one iteration of the loop over the enabled pairs
UpdateOrderbookLoop(p) ==
    /\ pub[p].pc = "uo_loop"
    /\ pub[p].i <= Len(EnabledPairs)
    /\ LET x == EnabledPairs[pub[p].i]
           currency == FormatExchangeCurrency(x)
           ok == currency \in DOMAIN pub[p].resp
       IN  IF ~ok
             THEN /\ pub' = [pub EXCEPT ![p].i = @ + 1]
                  /\ UNCHANGED Orderbooks
             ELSE LET orderBook == OrderbookOf(pub[p].orderBook,
                                               pub[p].resp[currency], x)
                  IN  /\ Orderbooks' = orderbook_ProcessOrderbook(Orderbooks,
                             PoloniexName, x, orderBook, pub[p].assetType)
                      /\ pub' = [pub EXCEPT ![p].i = @ + 1,
                                            ![p].orderBook = orderBook]
    /\ UNCHANGED <<liquiVars, Tickers>>

\* part_000:121 return orderbook.GetOrderbook(p.Name, currencyPair, assetType)
UpdateOrderbookReturn(p) ==
    /\ pub[p].pc = "uo_loop"
    /\ pub[p].i > Len(EnabledPairs)
    /\ pub' = [pub EXCEPT ![p] =
                 ReturnedPub(pub[p],
                     orderbook_GetOrderbook(Orderbooks, PoloniexName,
                                            pub[p].pair, pub[p].assetType))]
    /\ UNCHANGED <<liquiVars, Tickers, Orderbooks>>

\* the steps of a market-data call once it is entered
CacheProgress(p) ==
    \/ GetTickerFails(p)
    \/ \E tick \in TickerResponses : GetTicker(p, tick)
    \/ UpdateTickerLoop(p)
    \/ UpdateTickerReturn(p)
    \/ GetOrderbookFails(p)
    \/ \E orderbookNew \in OrderbookResponses : GetOrderbook(p, orderbookNew)
    \/ UpdateOrderbookLoop(p)
    \/ UpdateOrderbookReturn(p)

CacheStep ==
    \E p \in Procs :
        \/ \E currencyPair \in Pairs, assetType \in AssetTypes :
              \/ GetTickerPrice(p, currencyPair, assetType)
              \/ UpdateTicker(p, currencyPair, assetType)
              \/ GetOrderbookEx(p, currencyPair, assetType)
              \/ UpdateOrderbook(p, currencyPair, assetType)
        \/ CacheProgress(p)

\* the same calls when the callers serialise themselves
NoneBusy == \A q \in Procs : ~Busy(q)

GetTickerPriceSeq(p, currencyPair, assetType) ==
    NoneBusy /\ GetTickerPrice(p, currencyPair, assetType)

UpdateTickerSeq(p, currencyPair, assetType) ==
    NoneBusy /\ UpdateTicker(p, currencyPair, assetType)

GetOrderbookExSeq(p, currencyPair, assetType) ==
    NoneBusy /\ GetOrderbookEx(p, currencyPair, assetType)

UpdateOrderbookSeq(p, currencyPair, assetType) ==
    NoneBusy /\ UpdateOrderbook(p, currencyPair, assetType)

CacheStepSeq ==
    \E p \in Procs :
        \/ \E currencyPair \in Pairs, assetType \in AssetTypes :
              \/ GetTickerPriceSeq(p, currencyPair, assetType)
              \/ UpdateTickerSeq(p, currencyPair, assetType)
              \/ GetOrderbookExSeq(p, currencyPair, assetType)
              \/ UpdateOrderbookSeq(p, currencyPair, assetType)
        \/ CacheProgress(p)

(***************************************************************************)
(* Poloniex: GetExchangeAccountInfo                                        *)
(***************************************************************************)
\* answers of p.GetBalances(): Balance.Currency
AccountBalances == { [c \in {"BTC", "ETH"} |-> IF c = "BTC" THEN 1 ELSE 0] }

\* part_000:127-140 the exchange.AccountInfo returned; Currencies is built
\* by ranging over a map, so its order is left open
AccountInfoOf(err, accountBalance) ==
    [ExchangeName |-> PoloniexName,
     Currencies |-> IF err # NoError THEN {}
                    ELSE {[CurrencyName |-> x, TotalValue |-> accountBalance[x]] :
                             x \in DOMAIN accountBalance}]

\* an account query that also files a ticker for the pair it was last
\* asked about
GetExchangeAccountInfo_FilesTicker(p, err, accountBalance) ==
    /\ ~Busy(p)
    /\ pub' = [pub EXCEPT ![p] =
                 ReturnedPub([Entered("done", "GetExchangeAccountInfo", NoPair,
                                      "", FALSE) EXCEPT !.fetched = 1],
                             [val |-> AccountInfoOf(err, accountBalance),
                              err |-> err])]
    /\ Tickers' = ticker_ProcessTicker(Tickers, PoloniexName, BTC_USD,
                                       ZeroPrice, "SPOT")
    /\ UNCHANGED <<liquiVars, Orderbooks>>

\* part_000:126-141 the whole call: p.GetBalances() is the one network call
\* and err is what it returns
GetExchangeAccountInfo(p, err, accountBalance) ==
    /\ ~Busy(p)
    /\ pub' = [pub EXCEPT ![p] =
                 ReturnedPub([Entered("done", "GetExchangeAccountInfo", NoPair,
                                      "", FALSE) EXCEPT !.fetched = 1],
                             [val |-> AccountInfoOf(err, accountBalance),
                              err |-> err])]
    /\ UNCHANGED <<liquiVars, Tickers, Orderbooks>>

AccountInfoStep ==
    \E p \in Procs, err \in TransportOutcomes,
       accountBalance \in AccountBalances :
        GetExchangeAccountInfo(p, err, accountBalance)

\* the ticker cache after a batch refresh that was answered with tick
RECURSIVE TickersAfter(_, _)
TickersAfter(tick, n) ==
    IF n = 0 THEN [k \in {} |-> ZeroPrice]
    ELSE ticker_ProcessTicker(TickersAfter(tick, n - 1), PoloniexName,
                              EnabledPairs[n],
                              TickerPriceOf(tick, EnabledPairs[n]), "SPOT")

\* the orderbook cache after a batch refresh whose answer held every
\* enabled pair
RECURSIVE OrderbooksAfter(_, _)
OrderbooksAfter(orderbookNew, n) ==
    IF n = 0 THEN [k \in {} |-> ZeroBase]
    ELSE orderbook_ProcessOrderbook(OrderbooksAfter(orderbookNew, n - 1),
             PoloniexName, EnabledPairs[n],
             OrderbookOf(ZeroBase,
                         orderbookNew[FormatExchangeCurrency(EnabledPairs[n])],
                         EnabledPairs[n]),
             "SPOT")

FullTick == [k \in {"BTC_USD", "ETH_USD", "LTC_USD"} |-> Quote(10)]
FullOrderbook == [k \in {"BTC_USD", "ETH_USD", "LTC_USD"} |-> BestFirstBook]

FilledTickers == TickersAfter(FullTick, Len(EnabledPairs))
FilledOrderbooks == OrderbooksAfter(FullOrderbook, Len(EnabledPairs))

\* the adapters once each cache has been filled by one batch refresh and
\* no call is running
PrivateInit ==
    /\ LiquiInit
    /\ pub = [p \in Procs |-> IdlePub]
    /\ Tickers = FilledTickers
    /\ Orderbooks = FilledOrderbooks

(***************************************************************************)
(* Poloniex: the operations the wrapper does not implement                 *)
(***************************************************************************)
\* errors.New(text): an error value that carries nothing but its text
errors_New(text) == text

\* a call that returns err at once; the zero value returned beside the
\* error is not modelled
ReturnAtOnce(p, op, err) ==
    /\ ~Busy(p)
    /\ pub' = [pub EXCEPT ![p] =
                 ReturnedPub(Entered("done", op, NoPair, "", FALSE),
                             [NoReturn EXCEPT !.err = err])]
    /\ UNCHANGED <<liquiVars, Tickers, Orderbooks>>

OrderIDs == {1, 2}
Amounts == {0, 1}
Currencies == {"BTC", "USD"}
Addresses == {"addr"}

\* part_000:145-148
GetExchangeFundTransferHistory(p) ==
    ReturnAtOnce(p, "GetExchangeFundTransferHistory", errors_New("not supported on exchange"))

\* part_000:151-155
GetExchangeHistory(p, currencyPair, assetType) ==
    ReturnAtOnce(p, "GetExchangeHistory", errors_New("trade history not yet implemented"))

\* part_000:158-160
SubmitExchangeOrder(p, currencyPair, amount, price) ==
    ReturnAtOnce(p, "SubmitExchangeOrder", errors_New("not yet implemented"))

\* part_000:164-166
ModifyExchangeOrder(p, orderID) ==
    ReturnAtOnce(p, "ModifyExchangeOrder", errors_New("not yet implemented"))

\* part_000:169-171
CancelExchangeOrder(p, orderID) ==
    ReturnAtOnce(p, "CancelExchangeOrder", errors_New("not yet implemented"))

\* part_000:174-176
CancelAllExchangeOrders(p) ==
    ReturnAtOnce(p, "CancelAllExchangeOrders", errors_New("not yet implemented"))

\* part_000:179-182
GetExchangeOrderInfo(p, orderID) ==
    ReturnAtOnce(p, "GetExchangeOrderInfo", errors_New("not yet implemented"))

\* part_000:185-187
GetExchangeDepositAddress(p, cryptocurrency) ==
    ReturnAtOnce(p, "GetExchangeDepositAddress", errors_New("not yet implemented"))

\* part_000:191-193
WithdrawCryptoExchangeFunds(p, address, cryptocurrency, amount) ==
    ReturnAtOnce(p, "WithdrawCryptoExchangeFunds", errors_New("not yet implemented"))

\* part_000:197-199
WithdrawFiatExchangeFunds(p, currency, amount) ==
    ReturnAtOnce(p, "WithdrawFiatExchangeFunds", errors_New("not yet implemented"))

\* part_000:203-205
WithdrawFiatExchangeFundsToInternationalBank(p, currency, amount) ==
    ReturnAtOnce(p, "WithdrawFiatExchangeFundsToInternationalBank", errors_New("not yet implemented"))

UnsupportedStep ==
    \E p \in Procs :
        \/ GetExchangeFundTransferHistory(p)
        \/ \E currencyPair \in Pairs, assetType \in AssetTypes :
              GetExchangeHistory(p, currencyPair, assetType)
        \/ \E currencyPair \in Pairs, amount \in Amounts, price \in Amounts :
              SubmitExchangeOrder(p, currencyPair, amount, price)
        \/ \E orderID \in OrderIDs :
              \/ ModifyExchangeOrder(p, orderID)
              \/ CancelExchangeOrder(p, orderID)
              \/ GetExchangeOrderInfo(p, orderID)
        \/ CancelAllExchangeOrders(p)
        \/ \E cryptocurrency \in Currencies :
              \/ GetExchangeDepositAddress(p, cryptocurrency)
              \/ \E address \in Addresses, amount \in Amounts :
                    WithdrawCryptoExchangeFunds(p, address, cryptocurrency,
                                                amount)
        \/ \E currency \in Currencies, amount \in Amounts :
              \/ WithdrawFiatExchangeFunds(p, currency, amount)
              \/ WithdrawFiatExchangeFundsToInternationalBank(p, currency,
                                                              amount)

Init == LiquiInit /\ CacheInit

Next == LiquiStep

\* concurrent private calls on one Liqui session
Spec == Init /\ [][Next]_vars

NextSeq == LiquiStepSeq

\* non-overlapping private calls on one Liqui session
SpecSeq == Init /\ [][NextSeq]_vars

NextCache == CacheStep

\* concurrent market-data calls on the Poloniex adapter
SpecCache == Init /\ [][NextCache]_vars

NextCacheSeq == CacheStepSeq

\* non-overlapping market-data calls on the Poloniex adapter
SpecCacheSeq == Init /\ [][NextCacheSeq]_vars

NextPrivate == LiquiStepSeq \/ AccountInfoStep

\* private calls of both adapters beside a filled market-data cache
SpecPrivate == PrivateInit /\ [][NextPrivate]_vars

NextFee == FeeStep

\* calls of GetFee on the Liqui adapter
SpecFee == Init /\ [][NextFee]_vars

NextUnsupported == UnsupportedStep

\* calls of the operations the Poloniex wrapper does not implement
SpecUnsupported == Init /\ [][NextUnsupported]_vars

(***************************************************************************)
(* Nonce claims                                                            *)
(***************************************************************************)
MaxNonce == MaxTime + MaxRequests

\* the integer the exchange reads from a body's nonce field
ParseInt(str) == CHOOSE n \in 0..MaxNonce : FormatInt(n) = str

SentNonce(i) == ParseInt(sent[i].nonce)

\* goroutines that have advanced the counter and not yet sent their request
Holding == {p \in Procs : priv[p].pc \in {"string", "send"}}

\* C1: with non-overlapping calls, the first signed body carries the
\* wall-clock seconds read by that call, every later body carries the
\* previous nonce + 1, and the counter stands one step further per call that
\* passed the credentials check.
C1_SequentialNonces ==
    /\ \A i \in 1..(Len(sent) - 1) : SentNonce(i + 1) = SentNonce(i) + 1
    /\ \A p \in Procs :
          (priv[p].pc = "send" /\ Len(sent) = 0) =>
              /\ priv[p].values["nonce"] = FormatInt(priv[p].t)
              /\ priv[p].t \in StartTime..now
    /\ \A p \in Procs :
          (priv[p].pc = "send" /\ Len(sent) > 0) =>
              ParseInt(priv[p].values["nonce"]) = SentNonce(Len(sent)) + 1
    /\ (Holding = {} /\ Len(sent) = 0) => Nonce = 0
    /\ (Holding = {} /\ Len(sent) > 0) => Nonce = SentNonce(Len(sent))
    /\ \A p \in Holding :
          Nonce = IF Len(sent) = 0 THEN priv[p].t
                  ELSE SentNonce(Len(sent)) + 1

\* three signed requests were sent one after the other, the first seeded at
\* StartTime
C1_Witness ==
    /\ Len(sent) = MaxRequests
    /\ sent[1].nonce = FormatInt(StartTime)
    /\ sent[2].nonce = FormatInt(StartTime + 1)

\* C2: no two signed request bodies of one session carry the same nonce,
\* whatever the interleaving of the calls.
C2_NoSharedNonce ==
    \A i, j \in 1..Len(sent) : i < j => sent[i].nonce # sent[j].nonce

\* nonces obtained so far: those sent and those held by calls about to send
Emitted ==
    {SentNonce(i) : i \in 1..Len(sent)} \cup
    {ParseInt(priv[p].values["nonce"]) : p \in {q \in Procs : priv[q].pc = "send"}}

NumEmitted == Len(sent) + Cardinality({q \in Procs : priv[q].pc = "send"})

\* C3: the nonces emitted by N concurrent acquisitions are seed .. seed+N-1
\* without gap or duplicate, a call that starts after another has finished
\* emits a larger nonce, and the counter never moves backwards.
C3_Linearizable ==
    /\ [](/\ Cardinality(Emitted) = NumEmitted
          /\ \A a, b \in Emitted : \A n \in a..b : n \in Emitted
          /\ \A i \in 1..Len(sent) : \A j \in 1..sent[i].after :
                SentNonce(j) < SentNonce(i))
    /\ [][Nonce' >= Nonce]_vars

\* C4: with no API secret configured, every private call returns the
\* missing-credentials failure and the transport is never called.
C4_NoSecretNoCall ==
    APISecret = "" =>
        /\ Len(sent) = 0
        /\ \A p \in Procs : priv[p].pc = "done" =>
              priv[p].err = WarningAuthenticatedRequestWithoutCredentialsSet

(***************************************************************************)
(* Market-data cache claims                                                *)
(***************************************************************************)
KeyOf(frame) == CacheKey(PoloniexName, frame.pair, frame.assetType)

TickerCall(frame) == frame.op \in {"GetTickerPrice", "UpdateTicker"}

\* two calls of the same kind for the same key
SameKey(f, g) == KeyOf(f) = KeyOf(g) /\ TickerCall(f) = TickerCall(g)

\* C5: concurrent GetTickerPrice / GetOrderbookEx calls that miss the same
\* key coalesce into one network fetch: the miss-path calls for one key that
\* are running at the same time have made at most one fetch between them.
C5_SingleFlight ==
    \A p, q \in Procs :
        (/\ p # q
         /\ Busy(p) /\ Busy(q)
         /\ pub[p].miss /\ pub[q].miss
         /\ SameKey(pub[p], pub[q]))
        => pub[p].fetched + pub[q].fetched <= 1

\* goroutine p returns from the refresh it entered through a miss
MissReturn(p) ==
    /\ pub[p].pc \in {"ut_loop", "uo_loop"}
    /\ pub[p].miss
    /\ pub'[p].pc = "done"

\* the snapshot the response resp holds for pair x, field by field (all
\* zero when the response has no entry for x)
FetchedTicker(resp, x) ==
    LET t == MapGet(resp, FormatExchangeCurrency(x), ZeroTicker)
    IN  [Pair |-> x, Ask |-> t.LowestAsk, Bid |-> t.HighestBid,
         High |-> t.High24Hr, Last |-> t.Last, Low |-> t.Low24Hr,
         Volume |-> t.BaseVolume]

FetchedOrderbook(resp, x) ==
    LET d == resp[FormatExchangeCurrency(x)]
    IN  [Pair |-> x, Bids |-> d.Bids, Asks |-> d.Asks]

\* what C6 says of a miss-path call that returns after a successful fetch
MissStored(p) ==
    LET f == pub[p]
        key == KeyOf(f)
        ret == pub'[p].ret
    IN  /\ pub'[p].fetched = 1
        /\ ret.err = NoError
        /\ IF f.pc = "ut_loop"
             THEN /\ key \in DOMAIN Tickers'
                  /\ Tickers'[key] = FetchedTicker(f.resp, f.pair)
                  /\ ret.val = Tickers'[key]
             ELSE /\ key \in DOMAIN Orderbooks'
                  /\ FormatExchangeCurrency(f.pair) \in DOMAIN f.resp
                  /\ Orderbooks'[key] = FetchedOrderbook(f.resp, f.pair)
                  /\ ret.val = Orderbooks'[key]

\* C6 as stated: every miss-path GetTickerPrice / GetOrderbookEx whose fetch
\* succeeded has fetched once, stored the fetched snapshot under the
\* requested key and returned it.
C6_MissStoresRequestedKey ==
    [][\A p \in Procs : MissReturn(p) => MissStored(p)]_vars

EnabledSet == {EnabledPairs[n] : n \in 1..Len(EnabledPairs)}

\* C6 amended: the same, for a requested pair that is one of the enabled
\* pairs and has data in the response.
C6_MissStoresEnabledKey ==
    [][\A p \in Procs :
          (/\ MissReturn(p)
           /\ pub[p].pair \in EnabledSet
           /\ FormatExchangeCurrency(pub[p].pair) \in DOMAIN pub[p].resp)
              => MissStored(p)]_vars

\* a GetOrderbookEx that missed has returned the orderbook it fetched, and
\* a GetTickerPrice for an enabled pair is then served from the cache
C6_Witness ==
    \E p \in Procs :
        /\ pub[p].pc = "done"
        /\ pub[p].op = "GetOrderbookEx"
        /\ pub[p].miss
        /\ pub[p].fetched = 1
        /\ pub[p].pair = ETH_USD
        /\ pub[p].ret.err = NoError
        /\ pub[p].ret.val = Orderbooks[KeyOf(pub[p])]
        /\ CacheKey(PoloniexName, BTC_USD, "SPOT") \in DOMAIN Tickers

\* goroutine p enters op for a key that is populated in cache
HitCall(p, op, cache) ==
    /\ ~Busy(p)
    /\ pub'[p] # pub[p]
    /\ pub'[p].op = op
    /\ KeyOf(pub'[p]) \in DOMAIN cache

\* the call of p was served from cache: it returned the cached snapshot
\* without a fetch and without a write
ServedFrom(p, cache) ==
    /\ pub'[p].pc = "done"
    /\ pub'[p].fetched = 0
    /\ pub'[p].ret = [val |-> cache[KeyOf(pub'[p])], err |-> NoError]
    /\ UNCHANGED <<Tickers, Orderbooks>>

\* C7: a populated key stays populated; a GetTickerPrice / GetOrderbookEx
\* for it returns the cached snapshot without a fetch and without a write;
\* the caches change only in the loops of UpdateTicker / UpdateOrderbook.
C7_HitsServedFromCache ==
    [][/\ \A p \in Procs :
            /\ HitCall(p, "GetTickerPrice", Tickers) => ServedFrom(p, Tickers)
            /\ HitCall(p, "GetOrderbookEx", Orderbooks)
                  => ServedFrom(p, Orderbooks)
       /\ DOMAIN Tickers \subseteq DOMAIN Tickers'
       /\ DOMAIN Orderbooks \subseteq DOMAIN Orderbooks'
       /\ Tickers' # Tickers => \E p \in Procs : pub[p].pc = "ut_loop"
       /\ Orderbooks' # Orderbooks => \E p \in Procs : pub[p].pc = "uo_loop"
      ]_vars

\* both a ticker and an orderbook were served from the cache while another
\* goroutine was refreshing
C7_Witness ==
    \E p, q \in Procs :
        /\ pub[p].pc = "done"
        /\ pub[p].op = "GetTickerPrice"
        /\ ~pub[p].miss
        /\ pub[p].fetched = 0
        /\ pub[p].ret.err = NoError
        /\ pub[p].ret.val.Last = 10
        /\ pub[q].pc = "ut_loop"

\* pairs the batch of p has written / has still to write
Written(p) == {EnabledPairs[n] : n \in 1..(pub[p].i - 1)}
Unwritten(p) == {EnabledPairs[n] : n \in pub[p].i..Len(EnabledPairs)}

\* C8: a batch refresh replaces the entries of the pairs it covers in one
\* step: the cache never holds the batch's snapshot for one covered pair
\* while another covered pair still holds something else.
C8_AtomicBatch ==
    \A p \in Procs :
        /\ pub[p].pc = "ut_loop" =>
              ~ \E x \in Written(p), y \in Unwritten(p) :
                  LET kx == CacheKey(PoloniexName, x, pub[p].assetType)
                      ky == CacheKey(PoloniexName, y, pub[p].assetType)
                  IN  /\ Tickers[kx] = TickerPriceOf(pub[p].resp, x)
                      /\ (ky \notin DOMAIN Tickers
                            \/ Tickers[ky] # TickerPriceOf(pub[p].resp, y))
        /\ pub[p].pc = "uo_loop" =>
              LET covered == {x \in EnabledSet :
                                FormatExchangeCurrency(x) \in DOMAIN pub[p].resp}
              IN  ~ \E x \in Written(p) \cap covered,
                       y \in Unwritten(p) \cap covered :
                      LET kx == CacheKey(PoloniexName, x, pub[p].assetType)
                          ky == CacheKey(PoloniexName, y, pub[p].assetType)
                      IN  /\ Orderbooks[kx] = FetchedOrderbook(pub[p].resp, x)
                          /\ (ky \notin DOMAIN Orderbooks
                                \/ Orderbooks[ky] # FetchedOrderbook(pub[p].resp, y))

\* C9: a ticker batch whose response has BTC_USD but lacks ETH_USD leaves a
\* valid BTC_USD snapshot in the cache, serves a caller of BTC_USD, and
\* reports the failure to a caller of ETH_USD.
C9_PartialBatch ==
    [][\A p \in Procs :
          (/\ pub[p].pc = "ut_loop"
           /\ pub'[p].pc = "done"
           /\ "BTC_USD" \in DOMAIN pub[p].resp
           /\ "ETH_USD" \notin DOMAIN pub[p].resp)
          => LET btc == CacheKey(PoloniexName, BTC_USD, pub[p].assetType)
             IN  /\ btc \in DOMAIN Tickers'
                 /\ Tickers'[btc] = FetchedTicker(pub[p].resp, BTC_USD)
                 /\ pub[p].pair = BTC_USD => pub'[p].ret.err = NoError
                 /\ pub[p].pair = ETH_USD => pub'[p].ret.err # NoError
      ]_vars

NonIncreasing(levels) ==
    \A m, n \in 1..Len(levels) : m < n => levels[m].Price >= levels[n].Price

NonDecreasing(levels) ==
    \A m, n \in 1..Len(levels) : m < n => levels[m].Price <= levels[n].Price

\* C10: every cached orderbook has its bids non-increasing and its asks
\* non-decreasing in price.
C10_OrderedLevels ==
    \A k \in DOMAIN Orderbooks :
        /\ NonIncreasing(Orderbooks[k].Bids)
        /\ NonDecreasing(Orderbooks[k].Asks)
\* C11: a private call whose transport succeeds but whose response envelope
\* carries a falsy success flag returns an ExchangeAPIError to its caller;
\* CancelOrder does not report the order as cancelled
C11_FalsySuccessIsFailure ==
    [][\A p \in Procs :
         (/\ priv[p].pc = "send"
          /\ priv'[p].pc = "done"
          /\ priv'[p].result.success = 0)
         => /\ priv'[p].err = "ExchangeAPIError"
            /\ priv[p].method = liquiCancelOrder
                 => ~CancelOrderReturn(priv'[p].err)]_vars

(***************************************************************************)
(* Unsupported operations                                                  *)
(***************************************************************************)
UnsupportedOperation == "UnsupportedOperation"

UnsupportedOps == {"GetExchangeFundTransferHistory", "GetExchangeHistory",
                   "SubmitExchangeOrder", "ModifyExchangeOrder",
                   "CancelExchangeOrder", "CancelAllExchangeOrders",
                   "GetExchangeOrderInfo", "GetExchangeDepositAddress",
                   "WithdrawCryptoExchangeFunds", "WithdrawFiatExchangeFunds",
                   "WithdrawFiatExchangeFundsToInternationalBank"}

\* C12: every call of an operation the Poloniex wrapper does not support
\* returns the UnsupportedOperation outcome, a kind of its own beside
\* TransportError and ExchangeAPIError, and makes no network call
C12_UnsupportedOutcome ==
    \A p \in Procs :
        (pub[p].pc = "done" /\ pub[p].op \in UnsupportedOps)
        => /\ pub[p].ret.err = UnsupportedOperation
           /\ pub[p].fetched = 0
           /\ sent = <<>>

(***************************************************************************)
(* Fee estimation                                                          *)
(***************************************************************************)
FeeCall(p) == priv[p].pc = "done" /\ priv[p].method = "GetFee"

\* the fee the rate, price and amount, or the table, give before any floor
ComputedFee(feeBuilder) ==
    CASE feeBuilder.FeeType = CryptocurrencyTradeFee ->
            calculateTradingFee(feeBuilder.PurchasePrice, feeBuilder.Amount,
                                feeBuilder.IsMaker)
      [] feeBuilder.FeeType = CryptocurrencyWithdrawalFee ->
            getCryptocurrencyWithdrawalFee(feeBuilder.FirstCurrency)
      [] OTHER -> 0

\* C13: GetFee never returns a negative fee, returns exactly zero where the
\* computed fee is negative and the computed fee otherwise, returns no
\* error, sends nothing and changes no state of the session
C13_FeeNeverNegative ==
    \A p \in Procs :
        FeeCall(p)
        => /\ priv[p].fee >= 0
           /\ ComputedFee(priv[p].feeBuilder) < 0 => priv[p].fee = 0
           /\ ComputedFee(priv[p].feeBuilder) >= 0
                => priv[p].fee = ComputedFee(priv[p].feeBuilder)
           /\ priv[p].err = NoError
           /\ sent = <<>> /\ lastRequest = NoRequest /\ Nonce = 0
           /\ Tickers = <<>> /\ Orderbooks = <<>>

\* a trade fee on a negative amount and a withdrawal fee from the negative
\* table entry have both been floored to zero
C13_Witness ==
    \E p, q \in Procs :
        /\ FeeCall(p) /\ FeeCall(q)
        /\ priv[p].feeBuilder.FeeType = CryptocurrencyTradeFee
        /\ priv[p].feeBuilder.Amount < 0 /\ priv[p].feeBuilder.PurchasePrice > 0
        /\ priv[p].fee = 0
        /\ priv[q].feeBuilder.FeeType = CryptocurrencyWithdrawalFee
        /\ priv[q].feeBuilder.FirstCurrency = "ETH"
        /\ priv[q].fee = 0

(***************************************************************************)
(* Private calls and the market-data cache                                 *)
(***************************************************************************)
\* C14: no step of a private call (a call through Liqui's
\* SendAuthenticatedHTTPRequest, or Poloniex's GetExchangeAccountInfo)
\* writes to the ticker cache or the orderbook cache
C14_PrivateCallsLeaveCache ==
    [][((\E p \in Procs : priv'[p] # priv[p])
        \/ (\E p \in Procs : /\ pub'[p] # pub[p]
                              /\ pub'[p].op = "GetExchangeAccountInfo"))
       => (Tickers' = Tickers /\ Orderbooks' = Orderbooks)]_vars

\* beside a filled cache a Liqui private call has reached the transport
\* and returned, and an account query has returned
C14_Witness ==
    /\ Tickers = FilledTickers /\ Orderbooks = FilledOrderbooks
    /\ FilledTickers # <<>> /\ FilledOrderbooks # <<>>
    /\ Len(sent) > 0
    /\ \E p \in Procs : priv[p].pc = "done" /\ priv[p].err = NoError
    /\ \E p \in Procs : /\ pub[p].pc = "done"
                         /\ pub[p].op = "GetExchangeAccountInfo"
                         /\ pub[p].ret.err = NoError

\* the caches PrivateInit starts from are caches a refresh leaves behind
FilledCacheReached == Tickers = FilledTickers /\ Orderbooks = FilledOrderbooks

(***************************************************************************)
(* The signed request                                                      *)
(***************************************************************************)
\* the values the body carries under key
BodyValues(body, key) == {i \in 1..Len(body) : body[i][1] = key}

\* the place of a key in the order sort.Strings gives
KeyRank(key) == CHOOSE n \in 1..Len(SortedKeys) : SortedKeys[n] = key

\* C15: every private request handed to the transport is a POST; its body
\* holds nonce exactly once, with the value of the session's counter, and
\* method exactly once, with the operation name, whatever the caller
\* supplied under those names; it holds every other parameter once, in
\* key order; and the Sign header is the HMAC-SHA512, under the configured
\* secret, of that very body
C15_SignedPost ==
    [][\A p \in Procs :
         (priv[p].pc = "send" /\ priv'[p].pc = "done")
         => LET req == lastRequest'
                body == req.body
            IN  /\ req.verb = "POST"
                /\ Cardinality(BodyValues(body, "nonce")) = 1
                /\ Cardinality(BodyValues(body, "method")) = 1
                /\ \A i \in 1..Len(body) :
                      /\ body[i][1] = "nonce"
                           => body[i][2] = nonce_String(Nonce)
                      /\ body[i][1] = "method"
                           => body[i][2] = priv[p].method
                      /\ body[i][1] \notin {"nonce", "method"}
                           => /\ body[i][1] \in DOMAIN priv[p].values
                              /\ body[i][2] = priv[p].values[body[i][1]]
                /\ \A k \in DOMAIN priv[p].values :
                      Cardinality(BodyValues(body, k)) = 1
                /\ \A i, j \in 1..Len(body) :
                      i < j => KeyRank(body[i][1]) < KeyRank(body[j][1])
                /\ req.headers.Key = APIKey
                /\ req.headers.Sign =
                      HexEncodeToString(GetHMAC(body, APISecret))]_vars

\* a second request has been sent, a TradeHistory request signed under the
\* configured secret whose nonce is the incremented counter
C15_Witness ==
    /\ Len(sent) = 2
    /\ lastRequest.verb = "POST"
    /\ APISecret = "secret"
    /\ Nonce > StartTime
    /\ \E i \in 1..Len(lastRequest.body) :
          lastRequest.body[i] = <<"method", liquiTradeHistory>>
    /\ \E i \in 1..Len(lastRequest.body) :
          lastRequest.body[i] = <<"nonce", nonce_String(Nonce)>>
    /\ \E i \in 1..Len(lastRequest.body) :
          lastRequest.body[i] = <<"pair", "eth_btc">>

(***************************************************************************)
(* Failed refreshes                                                        *)
(***************************************************************************)
Fetching(frame) == frame.pc \in {"ut_fetch", "uo_fetch"}

\* C16: a refresh whose transport call fails, entered directly or through
\* the miss path, returns the transport error after exactly one transport
\* call, and no step of it, from entry to return, changes either cache
C16_FailedRefresh ==
    [][\A p \in Procs :
         /\ (~Busy(p) /\ Fetching(pub'[p]))
              => (Tickers' = Tickers /\ Orderbooks' = Orderbooks)
         /\ (Fetching(pub[p]) /\ pub'[p].pc = "done")
              => /\ pub'[p].ret.err = "TransportError"
                 /\ pub'[p].fetched = 1
                 /\ Tickers' = Tickers /\ Orderbooks' = Orderbooks]_vars

\* beside caches an earlier refresh has filled, a ticker refresh entered
\* directly and an orderbook refresh entered on a miss have both failed
C16_Witness ==
    /\ Tickers # <<>> /\ Orderbooks # <<>>
    /\ \E p, q \in Procs :
          /\ pub[p].pc = "done" /\ pub[p].op = "UpdateTicker"
          /\ pub[p].ret.err = "TransportError" /\ pub[p].fetched = 1
          /\ pub[q].pc = "done" /\ pub[q].op = "GetOrderbookEx"
          /\ pub[q].miss
          /\ pub[q].ret.err = "TransportError" /\ pub[q].fetched = 1

(***************************************************************************)
(* Which entries a batch refresh writes                                    *)
(***************************************************************************)
\* the cache keys of the pairs that are not enabled
OtherKeys ==
    {CacheKey(PoloniexName, x, assetType) :
        x \in Pairs \ EnabledSet, assetType \in AssetTypes}

\* C17: a refresh writes entries for enabled pairs only: no step creates or
\* changes the ticker or orderbook entry of a pair that is not enabled,
\* whether or not the answer of the exchange holds that pair
C17_OnlyEnabledWritten ==
    [][\A k \in OtherKeys :
         /\ k \notin DOMAIN Tickers /\ k \notin DOMAIN Tickers'
         /\ k \notin DOMAIN Orderbooks /\ k \notin DOMAIN Orderbooks']_vars

\* refreshes asked for LTC_USD, which is not enabled, and answered with
\* LTC_USD among the pairs have completed for both caches
C17_Witness ==
    /\ FormatExchangeCurrency(LTC_USD) \in DOMAIN FullTick
    /\ LTC_USD \notin EnabledSet
    /\ Tickers = FilledTickers
    /\ Orderbooks = FilledOrderbooks
    /\ \E p, q \in Procs :
          /\ pub[p].pc = "done" /\ pub[p].op = "GetTickerPrice"
          /\ pub[p].pair = LTC_USD /\ pub[p].fetched = 1
          /\ pub[p].ret.err # NoError
          /\ pub[q].pc = "done" /\ pub[q].op = "GetOrderbookEx"
          /\ pub[q].pair = LTC_USD /\ pub[q].fetched = 1
          /\ pub[q].ret.err # NoError

\* the step is the loop body of p's refresh for an enabled pair that the
\* answer of the exchange does not hold
AbsentPairStep(p) ==
    /\ pub[p].pc \in {"ut_loop", "uo_loop"}
    /\ pub[p].i <= Len(EnabledPairs)
    /\ pub'[p].i = pub[p].i + 1
    /\ FormatExchangeCurrency(EnabledPairs[pub[p].i]) \notin DOMAIN pub[p].resp

SameEntry(cache, cacheAfter, k) ==
    /\ k \in DOMAIN cacheAfter <=> k \in DOMAIN cache
    /\ k \in DOMAIN cache => cacheAfter[k] = cache[k]

\* C18: in a batch refresh, ticker or orderbook, an enabled pair that the
\* answer does not hold keeps the entry it had, and stays a miss if it had
\* none
C18_AbsentPairKeepsEntry ==
    [][\A p \in Procs :
         AbsentPairStep(p)
         => LET k == CacheKey(PoloniexName, EnabledPairs[pub[p].i],
                              pub[p].assetType)
            IN  /\ SameEntry(Tickers, Tickers', k)
                /\ SameEntry(Orderbooks, Orderbooks', k)]_vars

(***************************************************************************)
(* A call rejected by the credentials check                                *)
(***************************************************************************)
RejectedCall(p) ==
    /\ priv[p].pc = "done"
    /\ priv[p].err = WarningAuthenticatedRequestWithoutCredentialsSet

\* C19: the step that rejects a private call for missing credentials
\* leaves the nonce counter as it was and the parameter set as the caller
\* passed it, with no nonce or method entry written; nothing is sent, and
\* in a session that rejects its calls the counter is never seeded
C19_RejectedCallLeavesNoTrace ==
    /\ [](\A p \in Procs :
            RejectedCall(p)
            => /\ Nonce = 0
               /\ sent = <<>> /\ lastRequest = NoRequest
               /\ \A k \in {"nonce", "method"} :
                     k \in DOMAIN priv[p].values => priv[p].values[k] = "7")
    /\ [][\A p \in Procs :
            (priv[p].pc = "check" /\ RejectedCall(p)')
            => /\ Nonce' = Nonce
               /\ priv'[p].values = priv[p].values
               /\ sent' = sent /\ lastRequest' = lastRequest]_vars

\* a GetTradeHistory call whose caller passed nonce and method entries, and
\* a call that passed neither, have both been rejected
C19_Witness ==
    \E p, q \in Procs :
        /\ RejectedCall(p) /\ RejectedCall(q)
        /\ "nonce" \in DOMAIN priv[p].values
        /\ priv[p].values["nonce"] = "7"
        /\ "pair" \in DOMAIN priv[p].values
        /\ DOMAIN priv[q].values = {"order_id"}

====
